---- MODULE Spec2Model ----
(***************************************************************************)
(* A model of src/lib/tee_secure.c: the one function                       *)
(*                                                                         *)
(*     char* tee_secure_process(const char* input)                         *)
(*                                                                         *)
(* run by a host program with two threads.  Memory is a set of blocks of   *)
(* 8-bit code units; a pointer is the name of a block, an index is a       *)
(* 0-based offset into it.  The function is modelled statement by          *)
(* statement, strlen as the scan it performs, so that the accesses of      *)
(* concurrent calls interleave.                                            *)
(***************************************************************************)
EXTENDS Integers, Sequences, FiniteSets

\* ------------------------------------------------------------ bounds
\* Longest payload of a caller's buffer.
MaxLen == 2
\* Code units are 0..MaxByte (0 is the terminator '\0').
MaxByte == 2
\* How many times the host overwrites a code unit of a buffer it owns.
MaxMutations == 1

\* ------------------------------------------------------------ constants
\* Width of size_t.  The arithmetic of len + 1 and len - 1 - i is unsigned,
\* modulo 2^SizeBits; 16 is the least width the C standard allows.
SizeBits == 16
SizeMod == 2 ^ SizeBits

Byte == 0 .. MaxByte
NUL == 0

Threads == {1, 2}

\* Pointers.  NULL is what a failed malloc returns; the storage at address 0
\* is a block of its own, which no caller buffer and no allocation overlaps.
NULL == "NULL"
CallerBufs == {"in1", "in2"}
Heap == {"h1", "h2"}
Blocks == {NULL} \cup CallerBufs \cup Heap

\* ------------------------------------------------------------ state
VARIABLES
    mem,        \* block -> its code units (a sequence; C index k is mem[b][k+1])
    allocated,  \* the heap blocks malloc has handed out
    pc,         \* thread -> where its call stands
    input,      \* thread -> the argument of its call
    len,        \* thread -> the local len (strlen's scan position until it returns)
    result,     \* thread -> the local result
    i,          \* thread -> the loop variable
    ret,        \* thread -> the pointer the call returned
    stale,      \* thread -> the host wrote to the call's input or output after it returned
    mutations   \* number of host writes so far

vars == <<mem, allocated, pc, input, len, result, i, ret, stale, mutations>>

\* ------------------------------------------------------------ helpers
RECURSIVE SeqsUpTo(_)
\* All sequences of code units of length at most n.
SeqsUpTo(n) ==
    IF n = 0 THEN {<<>>}
    ELSE LET S == SeqsUpTo(n - 1)
         IN  S \cup {Append(s, b) : s \in {x \in S : Len(x) = n - 1}, b \in Byte}

\* The buffers a caller may pass: every sequence of at most MaxLen code units
\* followed by a terminator.  An earlier 0 is allowed: the payload then ends there
\* and the rest of the buffer lies behind the first terminator.
Inputs == {Append(s, NUL) : s \in SeqsUpTo(MaxLen)}

\* A readable, terminated buffer: the precondition on the argument.
Valid(b) == \E k \in 1 .. Len(mem[b]) : mem[b][k] = NUL

InBounds(b, k) == k >= 0 /\ k < Len(mem[b])

\* The values a read of b[k] can yield: the stored code unit, or anything at all
\* when k is outside the block (undefined behaviour).
ReadVals(b, k) == IF InBounds(b, k) THEN {mem[b][k + 1]} ELSE Byte

\* The memory after the store b[k] = v.  A store outside the block does not land
\* in any modelled block.
Store(b, k, v) ==
    IF InBounds(b, k) THEN [mem EXCEPT ![b] = [@ EXCEPT ![k + 1] = v]] ELSE mem

Crashed == \E t \in Threads : pc[t] = "crashed"

InCall(t) == pc[t] \in {"strlen", "malloc", "loop", "term", "ret"}

\* ------------------------------------------------------------ initial state
Init ==
    /\ \E s \in Inputs :
         mem = [b \in Blocks |->
                  IF b \in CallerBufs THEN s
                  ELSE IF b = NULL THEN [k \in 1 .. MaxLen + 1 |-> NUL]
                  ELSE <<>>]
    /\ allocated = {}
    /\ pc = [t \in Threads |-> "idle"]
    /\ input = [t \in Threads |-> NULL]
    /\ len = [t \in Threads |-> 0]
    /\ result = [t \in Threads |-> NULL]
    /\ i = [t \in Threads |-> 0]
    /\ ret = [t \in Threads |-> NULL]
    /\ stale = [t \in Threads |-> FALSE]
    /\ mutations = 0

\* ------------------------------------------------------------ the host
\* The buffers the host holds: its own, and those returned to it.
Owned == CallerBufs \cup ({ret[t] : t \in {u \in Threads : pc[u] = "done"}} \ {NULL})

\* A thread of the host calls tee_secure_process(b) on a valid buffer it holds.
Call(t, b) ==
    /\ ~Crashed
    /\ pc[t] = "idle"
    /\ b \in Owned
    /\ Valid(b)
    /\ pc' = [pc EXCEPT ![t] = "strlen"]
    /\ input' = [input EXCEPT ![t] = b]
    /\ len' = [len EXCEPT ![t] = 0]
    /\ UNCHANGED <<mem, allocated, result, i, ret, stale, mutations>>

\* ------------------------------------------------------------ tee_secure_process
\* size_t len = strlen(input);  one step per code unit scanned.
Strlen(t) ==
    /\ ~Crashed
    /\ pc[t] = "strlen"
    /\ \E v \in ReadVals(input[t], len[t]) :
         IF v = NUL
         THEN /\ pc' = [pc EXCEPT ![t] = "malloc"]
              /\ len' = len
         ELSE /\ len' = [len EXCEPT ![t] = (len[t] + 1) % SizeMod]
              /\ pc' = pc
    /\ UNCHANGED <<mem, allocated, input, result, i, ret, stale, mutations>>

\* A slip: no room for the terminator.
MutAllocSizeNoTerminator(t) == len[t] % SizeMod

\* The size handed to malloc: len + 1 in size_t.
AllocSize(t) == (len[t] + 1) % SizeMod

\* A slip: a buffer that is not new to each call.
MutFreeBlocksReused == Heap

\* The blocks malloc may return: any block not handed out yet.
FreeBlocks == Heap \ allocated

\* The contents of a new block of n code units.  They are indeterminate; the
\* function never reads them, and each fill with one code unit stands for them.
Fresh(n) == {[k \in 1 .. n |-> v] : v \in Byte}

\* char* result = (char*)malloc(len + 1);  a new block, or NULL.
MallocOk(t) ==
    /\ ~Crashed
    /\ pc[t] = "malloc"
    /\ \E h \in FreeBlocks, f \in Fresh(AllocSize(t)) :
         /\ mem' = [mem EXCEPT ![h] = f]
         /\ allocated' = allocated \cup {h}
         /\ result' = [result EXCEPT ![t] = h]
    /\ i' = [i EXCEPT ![t] = 0]
    /\ pc' = [pc EXCEPT ![t] = "loop"]
    /\ UNCHANGED <<input, len, ret, stale, mutations>>

MallocFail(t) ==
    /\ ~Crashed
    /\ pc[t] = "malloc"
    /\ result' = [result EXCEPT ![t] = NULL]
    /\ i' = [i EXCEPT ![t] = 0]
    /\ pc' = [pc EXCEPT ![t] = "loop"]
    /\ UNCHANGED <<mem, allocated, input, len, ret, stale, mutations>>

\* A slip: i <= len.
MutLoopCondInclusive(t) == i[t] <= len[t]

\* i < len
LoopCond(t) == i[t] < len[t]

\* A slip: a copy in order, input[i].
MutSrcIndexForward(t) == i[t] % SizeMod

\* A slip: len - i, one too far.
MutSrcIndexOffByOne(t) == (len[t] - i[t]) % SizeMod

\* len - 1 - i in size_t
SrcIndex(t) == (len[t] - 1 - i[t]) % SizeMod

\* A slip: the reversal written into the caller's buffer.
MutDstInPlace(t) == input[t]

\* The pointer the function stores through: result.
Dst(t) == result[t]

\* A slip: the terminator one code unit early.
MutTermIndexEarly(t) == (len[t] - 1) % SizeMod

\* The index of the terminating store: len.
TermIndex(t) == len[t]

\* The loop test failing: on to the statement after the loop.
LoopExit(t) ==
    /\ ~Crashed
    /\ pc[t] = "loop"
    /\ ~LoopCond(t)
    /\ pc' = [pc EXCEPT ![t] = "term"]
    /\ UNCHANGED <<mem, allocated, input, len, result, i, ret, stale, mutations>>

\* result[i] = input[len - 1 - i]; i++   with result a block.
LoopBody(t) ==
    /\ ~Crashed
    /\ pc[t] = "loop"
    /\ LoopCond(t)
    /\ result[t] # NULL
    /\ \E v \in ReadVals(input[t], SrcIndex(t)) : mem' = Store(Dst(t), i[t], v)
    /\ i' = [i EXCEPT ![t] = (i[t] + 1) % SizeMod]
    /\ UNCHANGED <<allocated, pc, input, len, result, ret, stale, mutations>>

\* result[len] = '\0';   with result a block.
Terminate(t) ==
    /\ ~Crashed
    /\ pc[t] = "term"
    /\ result[t] # NULL
    /\ mem' = Store(Dst(t), TermIndex(t), NUL)
    /\ pc' = [pc EXCEPT ![t] = "ret"]
    /\ UNCHANGED <<allocated, input, len, result, i, ret, stale, mutations>>

\* The thread's next statement is a store through result.
AtStore(t) == (pc[t] = "loop" /\ LoopCond(t)) \/ pc[t] = "term"

\* A store through result = NULL: undefined behaviour.  The process traps ...
NullTrap(t) ==
    /\ ~Crashed
    /\ AtStore(t)
    /\ result[t] = NULL
    /\ pc' = [pc EXCEPT ![t] = "crashed"]
    /\ UNCHANGED <<mem, allocated, input, len, result, i, ret, stale, mutations>>

\* ... or, where address 0 is writable, the store lands there and the call goes on.
NullStore(t) ==
    /\ ~Crashed
    /\ AtStore(t)
    /\ result[t] = NULL
    /\ IF pc[t] = "loop"
       THEN /\ \E v \in ReadVals(input[t], SrcIndex(t)) : mem' = Store(NULL, i[t], v)
            /\ i' = [i EXCEPT ![t] = (i[t] + 1) % SizeMod]
            /\ pc' = pc
       ELSE /\ mem' = Store(NULL, TermIndex(t), NUL)
            /\ i' = i
            /\ pc' = [pc EXCEPT ![t] = "ret"]
    /\ UNCHANGED <<allocated, input, len, result, ret, stale, mutations>>

\* return result;
Return(t) ==
    /\ ~Crashed
    /\ pc[t] = "ret"
    /\ ret' = [ret EXCEPT ![t] = result[t]]
    /\ pc' = [pc EXCEPT ![t] = "done"]
    /\ UNCHANGED <<mem, allocated, input, len, result, i, stale, mutations>>

\* ------------------------------------------------------------ the host, later
\* The host, once its calls have returned, overwrites one code unit of a buffer
\* it holds with another value.
Mutate(b, k) ==
    /\ \A t \in Threads : pc[t] = "done"
    /\ mutations < MaxMutations
    /\ b \in Owned
    /\ InBounds(b, k)
    /\ mem' = Store(b, k, (mem[b][k + 1] + 1) % (MaxByte + 1))
    /\ mutations' = mutations + 1
    /\ stale' = [t \in Threads |-> stale[t] \/ input[t] = b \/ ret[t] = b]
    /\ UNCHANGED <<allocated, pc, input, len, result, i, ret>>

Step(t) ==
    \/ Strlen(t)
    \/ MallocOk(t)
    \/ MallocFail(t)
    \/ LoopExit(t)
    \/ LoopBody(t)
    \/ Terminate(t)
    \/ NullTrap(t)
    \/ NullStore(t)
    \/ Return(t)

Next ==
    \/ \E t \in Threads, b \in Blocks : Call(t, b)
    \/ \E t \in Threads : Step(t)
    \/ \E b \in Blocks, k \in 0 .. MaxLen : Mutate(b, k)

Spec == Init /\ [][Next]_vars

\* ------------------------------------------------------------ properties
\* The payload length of a buffer: the number of code units before its first
\* terminator (-1 for a buffer that holds none).
PayloadLen(s) ==
    IF \E k \in 1 .. Len(s) : s[k] = NUL
    THEN (CHOOSE k \in 1 .. Len(s) : s[k] = NUL /\ \A j \in 1 .. k - 1 : s[j] # NUL) - 1
    ELSE -1

\* The call of thread t returned a buffer.
Success(t) == pc[t] = "done" /\ ret[t] # NULL

\* The call of thread t returned a buffer, and the host has written neither to it
\* nor to the call's input since: both are as the call left them.
Returned(t) == Success(t) /\ ~stale[t]

\* C1: for every index k in [0, N) of a returned sequence, output[k] = input[N-1-k],
\* N being the payload length of the input.
C1_Reversed ==
    \A t \in Threads :
        Returned(t) =>
            LET in == mem[input[t]]
                out == mem[ret[t]]
                N == PayloadLen(in)
            IN  \A k \in 0 .. N - 1 : InBounds(ret[t], k) /\ out[k + 1] = in[N - 1 - k + 1]

\* A call returned the reverse of a payload of MaxLen code units that is no palindrome.
C1_Witness ==
    \E t \in Threads :
        /\ Returned(t)
        /\ PayloadLen(mem[input[t]]) = MaxLen
        /\ mem[input[t]][1] # mem[input[t]][MaxLen]

\* C3: the payload length of a returned sequence equals the payload length of the input.
C3_SameLength ==
    \A t \in Threads :
        Returned(t) => PayloadLen(mem[ret[t]]) = PayloadLen(mem[input[t]])

\* A call returned on a buffer whose payload ends before the buffer does: the
\* payload has one code unit, the buffer holds more behind the first terminator.
C3_Witness ==
    \E t \in Threads :
        /\ Returned(t)
        /\ PayloadLen(mem[input[t]]) = 1
        /\ Len(mem[input[t]]) > 2

\* C4: on the empty input a call whose allocation succeeded never enters the loop
\* body (i stays 0) and returns a present buffer of payload length 0.
C4_Empty ==
    \A t \in Threads :
        /\ (pc[t] \in {"loop", "term", "ret", "done"} /\ len[t] = 0 /\ result[t] # NULL)
              => i[t] = 0 /\ ~(pc[t] = "loop" /\ LoopCond(t))
        /\ (Returned(t) /\ PayloadLen(mem[input[t]]) = 0)
              => ret[t] \in Heap /\ PayloadLen(mem[ret[t]]) = 0
        /\ (pc[t] = "done" /\ result[t] # NULL) => ret[t] = result[t]

\* A call on the empty input returned a buffer holding just the terminator.
C4_Witness ==
    \E t \in Threads :
        /\ Returned(t)
        /\ mem[input[t]][1] = NUL
        /\ mem[ret[t]] = <<NUL>>

\* C5: no step taken while a call is in progress, up to and including its return,
\* changes a code unit of the call's input buffer.
C5_InputUnchanged ==
    [][\A t \in Threads : InCall(t) => mem'[input[t]] = mem[input[t]]]_vars

\* A call on a payload of MaxLen code units has made all its stores and is about
\* to return.
C5_Witness ==
    \E t \in Threads :
        /\ pc[t] = "ret"
        /\ result[t] # NULL
        /\ len[t] = MaxLen

\* C9: a returned buffer holds the terminator at index N and none below N.
C9_Terminator ==
    \A t \in Threads :
        Returned(t) =>
            LET out == mem[ret[t]]
                N == PayloadLen(mem[input[t]])
            IN  /\ InBounds(ret[t], N)
                /\ out[N + 1] = NUL
                /\ \A k \in 0 .. N - 1 : out[k + 1] # NUL

\* A call returned a buffer of MaxLen + 1 code units, the last one the terminator.
C9_Witness ==
    \E t \in Threads :
        /\ Success(t)
        /\ Len(mem[ret[t]]) = MaxLen + 1
        /\ mem[ret[t]][MaxLen + 1] = NUL

\* C10: after a successful allocation the buffer has N + 1 code units; each
\* iteration runs with i < len, so len - 1 - i does not wrap, reads the input at
\* an index in [0, N-1] and stores at an index in [0, N]; the terminating store
\* is at an index in [0, N].
C10_IndicesInRange ==
    \A t \in Threads :
        (pc[t] \in {"loop", "term"} /\ result[t] # NULL) =>
            LET N == PayloadLen(mem[input[t]])
            IN  /\ Len(mem[result[t]]) = N + 1
                /\ (pc[t] = "loop" /\ LoopCond(t)) =>
                      /\ len[t] - 1 - i[t] >= 0
                      /\ SrcIndex(t) \in 0 .. N - 1
                      /\ i[t] \in 0 .. N
                /\ pc[t] = "term" => TermIndex(t) \in 0 .. N

\* A call is at its last iteration on a payload of MaxLen code units: it is about
\* to read input[0] and store it at result[MaxLen - 1].
C10_Witness ==
    \E t \in Threads :
        /\ pc[t] = "loop"
        /\ result[t] # NULL
        /\ len[t] = MaxLen
        /\ i[t] = MaxLen - 1
        /\ SrcIndex(t) = 0

\* The payload of a buffer: its code units before the first terminator.
Payload(s) == SubSeq(s, 1, PayloadLen(s))

\* Thread u was called on the buffer the call of thread t returned.
Chained(t, u) == t # u /\ Success(t) /\ pc[u] = "done" /\ input[u] = ret[t]

\* C6: a call on the buffer another call returned gives back a buffer equal, code
\* unit by code unit, to the first call's input: same payload length, same payload.
C6_Involution ==
    \A t, u \in Threads :
        (Chained(t, u) /\ Returned(t) /\ Returned(u)) =>
            /\ PayloadLen(mem[ret[u]]) = PayloadLen(mem[input[t]])
            /\ Payload(mem[ret[u]]) = Payload(mem[input[t]])

\* Two chained calls returned, the first on a payload of MaxLen code units that
\* is no palindrome.
C6_Witness ==
    \E t, u \in Threads :
        /\ Chained(t, u) /\ Returned(t) /\ Returned(u)
        /\ PayloadLen(mem[input[t]]) = MaxLen
        /\ mem[input[t]][1] # mem[input[t]][MaxLen]

\* Two calls on buffers of the host returned a buffer each.
Twice(t, u) ==
    /\ t # u
    /\ Success(t) /\ Success(u)
    /\ input[t] \in CallerBufs /\ input[u] \in CallerBufs

\* The buffers of two such calls that C7 is about: an input and the two outputs.
Three(t, u) == {input[t], ret[t], ret[u]}

\* C7: two calls on inputs of equal content return equal outputs, in two distinct
\* buffers that malloc handed out, each distinct from the inputs; and a later
\* write to one of the input and the two outputs changes neither of the other two.
C7_Independent ==
    /\ [](\A t, u \in Threads :
            Twice(t, u) =>
                /\ ret[t] \in Heap /\ ret[u] \in Heap
                /\ ret[t] # ret[u]
                /\ ret[t] \notin {input[t], input[u]}
                /\ (Returned(t) /\ Returned(u) /\ mem[input[t]] = mem[input[u]])
                      => mem[ret[t]] = mem[ret[u]])
    /\ [][\A t, u \in Threads :
            Twice(t, u) =>
                /\ Cardinality(Three(t, u)) = 3
                /\ \A b \in Three(t, u) :
                      mem'[b] # mem[b] =>
                          \A c \in Three(t, u) \ {b} : mem'[c] = mem[c]]_vars

\* Two calls on two buffers of equal content returned, and the host has since
\* overwritten a code unit of the first one's output.
C7_Witness ==
    \E t, u \in Threads :
        /\ Twice(t, u)
        /\ input[t] # input[u]
        /\ mutations > 0
        /\ mem[ret[t]] # mem[ret[u]]
        /\ ~stale[u]

\* The allocation of thread t's call failed.
AllocFailed(t) == pc[t] \in {"loop", "term", "ret", "done", "crashed"} /\ result[t] = NULL

\* C2: a call whose allocation failed returns to its caller, signalling the failure
\* with no output (NULL), and stores nothing: the process does not trap and the
\* storage at address 0 is as it was.
C2_AllocationErrorSignalled ==
    \A t \in Threads :
        AllocFailed(t) =>
            /\ pc[t] # "crashed"
            /\ mem[NULL] = [k \in 1 .. MaxLen + 1 |-> NUL]
            /\ pc[t] = "done" => ret[t] = NULL

\* The accesses the next statement of thread t makes: block, index, store or load.
Accesses(t) ==
    IF pc[t] = "strlen"
        THEN {[blk |-> input[t], idx |-> len[t], store |-> FALSE]}
    ELSE IF pc[t] = "loop" /\ LoopCond(t)
        THEN {[blk |-> input[t], idx |-> SrcIndex(t), store |-> FALSE],
              [blk |-> result[t], idx |-> i[t], store |-> TRUE]}
    ELSE IF pc[t] = "term"
        THEN {[blk |-> result[t], idx |-> TermIndex(t), store |-> TRUE]}
    ELSE {}

\* Two calls in progress are about to access one location, one of them storing.
Race(t, u) ==
    /\ t # u
    /\ \E a \in Accesses(t), b \in Accesses(u) :
          a.blk = b.blk /\ a.idx = b.idx /\ (a.store \/ b.store)

\* C8: under every interleaving no two calls race, each call loads only from its
\* argument and stores only into the buffer malloc handed to it, and each returns
\* what it returns when run alone: the reverse of its input.
C8_RaceFree ==
    \A t \in Threads :
        /\ \A u \in Threads : ~Race(t, u)
        /\ \A a \in Accesses(t) :
              IF a.store THEN a.blk = result[t] /\ result[t] \in allocated
              ELSE a.blk = input[t]
        /\ Returned(t) =>
              LET N == PayloadLen(mem[input[t]])
              IN  \A k \in 0 .. N - 1 : mem[ret[t]][k + 1] = mem[input[t]][N - k]

\* The same for the calls whose allocation succeeded: they do not race.
C8_RaceFreeWhenAllocated ==
    \A t \in Threads :
        result[t] # NULL =>
            /\ \A u \in Threads : result[u] # NULL => ~Race(t, u)
            /\ \A a \in Accesses(t) :
                  IF a.store THEN a.blk = result[t] /\ result[t] \in allocated
                  ELSE a.blk = input[t]

====
